---- MODULE Spec2Model ----
(***************************************************************************)
(* Model of the discharge-summary workflow orchestrator of src/App.tsx.    *)
(*                                                                         *)
(* The React component keeps one AgentState value.  Every handler and      *)
(* every continuation of runWorkflow applies its setState updaters in one  *)
(* batch; after the batch is rendered the effect of App.tsx:91-165 runs    *)
(* again iff one of its dependencies (status, patientId, patientData,      *)
(* synthesizedNotes, draftSummary) changed, and then executes runWorkflow  *)
(* up to its first await.  Each await leaves a pending invocation in       *)
(* `tasks`; pending invocations resume in any order.                       *)
(*                                                                         *)
(* The timestamp field of an audit entry (wall-clock text) is not          *)
(* modelled; no code reads it.  Optional values (patientId, patientData,   *)
(* error) are <<>> for null and <<v>> for a value.                         *)
(*                                                                         *)
(* Nothing cancels a pending invocation: after reset(), selectPatient() or *)
(* generate() the invocations of the discarded run stay in `tasks`, marked *)
(* stale, and their updaters are applied to whatever the state then is.    *)
(* The variables approved, tainted, reviews, ops and budget record history *)
(* for the properties and for the bound; no action of the program reads    *)
(* them except through the bound.                                          *)
(***************************************************************************)
EXTENDS Integers, Sequences, FiniteSets, TLC

VARIABLES
    state,      \* the AgentState held by useState (App.tsx:32)
    tasks,      \* runWorkflow invocations suspended at an await
    approved,   \* history: approve() was invoked on the draft now stored
    tainted,    \* history: a continuation of a discarded run was applied
                \*          to the state of the current run
    reviews,    \* history: approve()/requestEdits() calls since the state
                \*          was last replaced
    ops,        \* history: approve()/requestEdits() calls and replacements
                \*          of the state with an invocation pending, since
                \*          the state was last replaced with none pending
    budget      \* the value of ops up to which such calls are explored

vars == <<state, tasks, approved, tainted, reviews, ops, budget>>

----------------------------------------------------------------------------
(* Bounds of the exploration. *)

\* Reviews and discards of a run with a step pending that are explored before
\* the state is next replaced with no step pending.
MaxOps == 2

----------------------------------------------------------------------------
(* Values. *)

Null == <<>>
Some(x) == <<x>>

PatientIds == {"P1", "X"}
KnownIds == {"P1"}
PatientNameOf(id) == "Name-" \o id

NoteTexts == {"", "N1"}          \* results of synthesizeClinicalData
DraftTexts == {"", "D1", "D2"}   \* results of generateDraftSummary
Messages == {"m1"}               \* e.message of a rejected collaborator call
EditTexts == {"t1"}              \* texts the clinician passes to requestEdits

INITIAL_STATE ==
    [ patientId        |-> Null,
      patientData      |-> Null,
      synthesizedNotes |-> "",
      draftSummary     |-> "",
      finalSummary     |-> "",
      auditLog         |-> <<>>,
      status           |-> "idle",
      error            |-> Null,
      editRequest      |-> "" ]

ALL_WORKFLOW_STEPS ==
    << "Start Workflow", "Retrieve Patient Data", "Synthesize Clinical Notes",
       "Generate Draft Summary", "Human Review", "Finalize Summary",
       "Workflow Complete" >>

\* Variant: the lookup never reports absence.
getPatientData_NeverAbsent(id) ==
    Some([id |-> id, name |-> PatientNameOf(id)])

getPatientData(id) ==
    IF id \in KnownIds THEN Some([id |-> id, name |-> PatientNameOf(id)])
    ELSE Null

----------------------------------------------------------------------------
(* Audit log updaters. *)

\* Variant: the new entry is put in front of the log.
addAuditLog_Prepend(s, step, details, status) ==
    [s EXCEPT !.auditLog =
        <<[step |-> step, details |-> details, status |-> status]>> \o @]

addAuditLog(s, step, details, status) ==
    [s EXCEPT !.auditLog =
        Append(@, [step |-> step, details |-> details, status |-> status])]

\* Variant: an update that finds no entry of that name appends one.
updateAuditLogStatus_Upsert(s, stepName, status, details) ==
    IF \E i \in 1..Len(s.auditLog) : s.auditLog[i].step = stepName
    THEN [s EXCEPT !.auditLog =
            [i \in 1..Len(@) |->
                IF @[i].step = stepName
                THEN [@[i] EXCEPT !.status = status,
                                  !.details = IF details # "" THEN details
                                              ELSE @]
                ELSE @[i]]]
    ELSE [s EXCEPT !.auditLog =
            Append(@, [step |-> stepName, details |-> details,
                       status |-> status])]

\* `details` is "" when the caller passes none: details || log.details
updateAuditLogStatus(s, stepName, status, details) ==
    [s EXCEPT !.auditLog =
        [i \in 1..Len(@) |->
            IF @[i].step = stepName
            THEN [@[i] EXCEPT !.status = status,
                              !.details = IF details # "" THEN details
                                          ELSE @]
            ELSE @[i]]]

NotFoundMsg(id) == "Patient ID " \o id \o " not found."
EditLogDetails(editRequest) ==
    "Clinician requested edits: \"" \o editRequest \o "\""

----------------------------------------------------------------------------
(* The effect: runWorkflow up to its first await. *)

NewTask(step, id, stepName) ==
    [step |-> step, pc |-> 1, patientId |-> id, data |-> Null,
     stepName |-> stepName, stale |-> FALSE]

Step1Pre(s) ==
    s.status = "running" /\ Len(s.auditLog) = 0 /\ s.patientId # Null

Step2Pre(s) ==
    s.status = "running" /\ s.patientData # Null /\ s.synthesizedNotes = ""

Step3Pre(s) ==
    \/ s.status = "running" /\ s.synthesizedNotes # "" /\ s.draftSummary = ""
    \/ s.status = "editing"

\* Variant: the finalSummary test is inverted.
Step4Pre_Inverted(s) ==
    s.status = "running" /\ s.draftSummary # "" /\ s.finalSummary # ""

Step4Pre(s) ==
    s.status = "running" /\ s.draftSummary # "" /\ s.finalSummary = ""

\* The synchronous prefix of runWorkflow on the rendered snapshot s:
\* the state after its updaters, and the invocation left pending.
runWorkflow(s) ==
    IF Step1Pre(s) THEN
        [ state |-> addAuditLog(s, "Start Workflow",
                      "Initiating summary generation for patient: "
                         \o s.patientId[1], "in_progress"),
          spawned |-> << NewTask("Step1", s.patientId[1], "Start Workflow") >> ]
    ELSE IF Step2Pre(s) THEN
        [ state |-> addAuditLog(s, "Synthesize Clinical Notes",
                      "Using Gemini to synthesize patient data.", "in_progress"),
          spawned |-> << NewTask("Step2", "", "Synthesize Clinical Notes") >> ]
    ELSE IF Step3Pre(s) THEN
        IF s.status = "editing" THEN
            [ state |-> [ addAuditLog(s, "Regenerate Draft",
                            "Applying requested edits and regenerating summary.",
                            "in_progress")
                          EXCEPT !.status = "running" ],
              spawned |-> << NewTask("Step3", "", "Regenerate Draft") >> ]
        ELSE
            [ state |-> addAuditLog(s, "Generate Draft Summary",
                          "Using Gemini to create draft summary.", "in_progress"),
              spawned |-> << NewTask("Step3", "", "Generate Draft Summary") >> ]
    ELSE IF Step4Pre(s) THEN
        [ state |-> addAuditLog(s, "Finalize Summary",
                      "Finalizing the document.", "in_progress"),
          spawned |-> << NewTask("Step4", "", "Finalize Summary") >> ]
    ELSE
        [ state |-> s, spawned |-> <<>> ]

Deps(s) ==
    << s.status, s.patientId, s.patientData, s.synthesizedNotes, s.draftSummary >>

\* Render s1 after s0 was rendered: the effect runs iff a dependency changed,
\* and runs again when its own updaters change a dependency.
RECURSIVE Effect(_, _, _)
Effect(s0, s1, ts) ==
    IF Deps(s0) = Deps(s1) THEN [state |-> s1, tasks |-> ts]
    ELSE LET r == runWorkflow(s1)
         IN Effect(s1, r.state, ts \o r.spawned)

\* Variant: the effect runs after every render, changed dependency or not.
Commit_AlwaysRuns(s1, ts) ==
    LET p == runWorkflow(s1)
        r == Effect(s1, p.state, ts \o p.spawned)
    IN /\ state' = r.state
       /\ tasks' = r.tasks

Commit(s1, ts) ==
    LET r == Effect(state, s1, ts)
    IN /\ state' = r.state
       /\ tasks' = r.tasks

RemoveAt(ts, i) == SubSeq(ts, 1, i - 1) \o SubSeq(ts, i + 1, Len(ts))
MarkStale(ts) == [i \in 1..Len(ts) |-> [ts[i] EXCEPT !.stale = TRUE]]

----------------------------------------------------------------------------
(* Handlers. *)

Init ==
    /\ state = INITIAL_STATE
    /\ tasks = <<>>
    /\ approved = FALSE
    /\ tainted = FALSE
    /\ reviews = 0
    /\ ops = 0
    /\ budget = MaxOps

\* Replacing the state discards the run; its pending invocations stay.
Discard ==
    /\ tasks # <<>> => ops < budget
    /\ ops' = IF tasks # <<>> THEN ops + 1 ELSE 0
    /\ approved' = FALSE
    /\ tainted' = FALSE
    /\ reviews' = 0
    /\ UNCHANGED budget

handlePatientSelect(id) ==
    /\ Commit([INITIAL_STATE EXCEPT !.patientId = Some(id)], MarkStale(tasks))
    /\ Discard

\* Variant: reset keeps the selected patient.
handleReset_KeepsPatient ==
    /\ Commit([INITIAL_STATE EXCEPT !.patientId = state.patientId],
              MarkStale(tasks))
    /\ Discard

handleReset ==
    /\ Commit(INITIAL_STATE, MarkStale(tasks))
    /\ Discard

\* Variant: the check for a selected patient is missing.
handleGenerate_NoGuard ==
    /\ Commit([INITIAL_STATE EXCEPT !.patientId = state.patientId,
                                     !.status = "running"],
              MarkStale(tasks))
    /\ Discard

handleGenerate ==
    /\ IF state.patientId = Null
       THEN UNCHANGED vars
       ELSE /\ Commit([INITIAL_STATE EXCEPT !.patientId = state.patientId,
                                            !.status = "running"],
                      MarkStale(tasks))
            /\ Discard

\* The review controls are offered while the workflow waits for the clinician.
CanReview == state.status = "awaiting_approval" /\ ops < budget

handleApprove ==
    /\ CanReview
    /\ Commit([updateAuditLogStatus(state, "Human Review", "completed",
                  "Clinician approved the draft summary.")
               EXCEPT !.status = "running"], tasks)
    /\ approved' = TRUE
    /\ reviews' = reviews + 1
    /\ ops' = ops + 1
    /\ UNCHANGED <<tainted, budget>>

handleRequestEdits(editRequest) ==
    /\ CanReview
    /\ Commit([state EXCEPT
                 !.auditLog = [i \in 1..Len(@) |->
                     IF @[i].step = "Human Review"
                     THEN [@[i] EXCEPT !.status = "completed",
                                       !.details = EditLogDetails(editRequest)]
                     ELSE @[i]],
                 !.status = "editing",
                 !.editRequest = editRequest], tasks)
    /\ reviews' = reviews + 1
    /\ ops' = ops + 1
    /\ UNCHANGED <<approved, tainted, budget>>

----------------------------------------------------------------------------
(* Continuations of runWorkflow: what runs when an awaited call settles. *)

Resumed(i) == tainted' = (tainted \/ tasks[i].stale)

\* Step 1, after the first delay (App.tsx:98-100).
Step1Lookup(i) ==
    /\ tasks[i].step = "Step1" /\ tasks[i].pc = 1
    /\ Commit(addAuditLog(state, "Retrieve Patient Data",
                 "Fetching patient record from database.", "in_progress"),
              [tasks EXCEPT ![i].pc = 2,
                            ![i].data = getPatientData(tasks[i].patientId)])
    /\ Resumed(i)
    /\ UNCHANGED <<approved, reviews, ops, budget>>

\* Step 1, after the second delay (App.tsx:102-111).
Step1Done(i) ==
    /\ tasks[i].step = "Step1" /\ tasks[i].pc = 2
    /\ LET data == tasks[i].data
           errorMsg == NotFoundMsg(tasks[i].patientId)
       IN IF data # Null
          THEN Commit([updateAuditLogStatus(
                          updateAuditLogStatus(state, "Start Workflow",
                                               "completed", ""),
                          "Retrieve Patient Data", "completed",
                          "Successfully fetched data for " \o data[1].name \o ".")
                       EXCEPT !.patientData = data],
                      RemoveAt(tasks, i))
          ELSE Commit([updateAuditLogStatus(state, "Retrieve Patient Data",
                                            "error", errorMsg)
                       EXCEPT !.status = "error", !.error = Some(errorMsg)],
                      RemoveAt(tasks, i))
    /\ Resumed(i)
    /\ UNCHANGED <<approved, reviews, ops, budget>>

\* Step 2, synthesizeClinicalData resolved with notes (App.tsx:119-120).
Step2Ok(i, notes) ==
    /\ tasks[i].step = "Step2"
    /\ Commit([updateAuditLogStatus(state, "Synthesize Clinical Notes",
                                    "completed", "Synthesis complete.")
               EXCEPT !.synthesizedNotes = notes],
              RemoveAt(tasks, i))
    /\ Resumed(i)
    /\ UNCHANGED <<approved, reviews, ops, budget>>

\* A rejected collaborator call (App.tsx:121-124 and 146-149).
StepFail(i, m) ==
    /\ tasks[i].step \in {"Step2", "Step3"}
    /\ Commit([updateAuditLogStatus(state, tasks[i].stepName, "error", m)
               EXCEPT !.status = "error", !.error = Some(m)],
              RemoveAt(tasks, i))
    /\ Resumed(i)
    /\ UNCHANGED <<approved, reviews, ops, budget>>

\* Step 3, generateDraftSummary resolved with draft (App.tsx:143-145).
Step3Ok(i, draft) ==
    /\ tasks[i].step = "Step3"
    /\ Commit([addAuditLog(
                  updateAuditLogStatus(state, tasks[i].stepName, "completed",
                                       "Draft generated. Awaiting human review."),
                  "Human Review", "Waiting for clinician approval.",
                  "human_input")
               EXCEPT !.draftSummary = draft,
                      !.status = "awaiting_approval",
                      !.editRequest = ""],
              RemoveAt(tasks, i))
    /\ Resumed(i)
    /\ approved' = FALSE
    /\ UNCHANGED <<reviews, ops, budget>>

\* Step 4, after the delay (App.tsx:157-159).
Step4Done(i) ==
    /\ tasks[i].step = "Step4"
    /\ LET prevState ==
             addAuditLog(
                updateAuditLogStatus(state, "Finalize Summary", "completed",
                                     "Discharge summary is complete."),
                "Workflow Complete", "Process finished successfully.",
                "completed")
       IN Commit([prevState EXCEPT !.finalSummary = prevState.draftSummary,
                                   !.status = "finished"],
                 RemoveAt(tasks, i))
    /\ Resumed(i)
    /\ UNCHANGED <<approved, reviews, ops, budget>>

Resume ==
    \E i \in 1..Len(tasks) :
        \/ Step1Lookup(i)
        \/ Step1Done(i)
        \/ \E notes \in NoteTexts : Step2Ok(i, notes)
        \/ \E m \in Messages : StepFail(i, m)
        \/ \E draft \in DraftTexts : Step3Ok(i, draft)
        \/ Step4Done(i)

Next ==
    \/ \E id \in PatientIds : handlePatientSelect(id)
    \/ handleReset
    \/ handleGenerate
    \/ handleApprove
    \/ \E t \in EditTexts : handleRequestEdits(t)
    \/ \E i \in 1..Len(tasks) : Step1Lookup(i)
    \/ \E i \in 1..Len(tasks) : Step1Done(i)
    \/ \E i \in 1..Len(tasks), notes \in NoteTexts : Step2Ok(i, notes)
    \/ \E i \in 1..Len(tasks), m \in Messages : StepFail(i, m)
    \/ \E i \in 1..Len(tasks), draft \in DraftTexts : Step3Ok(i, draft)
    \/ \E i \in 1..Len(tasks) : Step4Done(i)

Spec == Init /\ [][Next]_vars

\* Pending invocations eventually resume and a waiting clinician eventually
\* acts.  The fair behaviours are explored with one operation less.
FairInit ==
    /\ state = INITIAL_STATE
    /\ tasks = <<>>
    /\ approved = FALSE
    /\ tainted = FALSE
    /\ reviews = 0
    /\ ops = 0
    /\ budget = MaxOps - 1

FairSpec ==
    FairInit /\ [][Next]_vars /\ WF_vars(Resume) /\ WF_vars(handleApprove)

----------------------------------------------------------------------------
(* Vocabulary of the properties. *)

Log == state.auditLog
Fresh == {i \in 1..Len(tasks) : ~tasks[i].stale}
FreshStep(step) == \E i \in Fresh : tasks[i].step = step
EntriesOf(step) == {i \in 1..Len(Log) : Log[i].step = step}
HasEntry(step, status) == \E i \in EntriesOf(step) : Log[i].status = status
InProgress == {i \in 1..Len(Log) : Log[i].status = "in_progress"}

\* The first draft was not repeated (step 3 repeats it after an empty draft
\* has been reviewed).
DraftedOnce == Cardinality(EntriesOf("Generate Draft Summary")) <= 1

\* The state belongs to one run only: no continuation of a discarded run
\* has been applied to it.
OwnRun == ~tainted

----------------------------------------------------------------------------
\* C1: Finalize is pending, or finalSummary is written, only when approve()
\* has been invoked on the draft currently stored in draftSummary.
C1_ReviewBeforeFinalize ==
    OwnRun /\ (FreshStep("Step4") \/ state.finalSummary # "") => approved

\* C2: at most one step of the run is in flight at any time.
C2_OneStepInFlight ==
    OwnRun => Cardinality(Fresh) <= 1

\* C3: after one requestEdits(t) on a stored draft and a successful
\* regeneration (the regenerated, non-empty draft is the one stored), the
\* quiescent state has status awaiting_approval, an empty
\* editRequest, the earlier "Human Review" entry completed with the edit note,
\* the "Regenerate Draft" entry completed and a second "Human Review" entry
\* waiting for input.
C3_EditCycleEnd ==
    ( /\ OwnRun /\ DraftedOnce /\ tasks = <<>> /\ reviews = 1
      /\ HasEntry("Regenerate Draft", "completed")
      /\ state.draftSummary # ""
      /\ state.status # "error" )
    => /\ state.status = "awaiting_approval"
       /\ state.editRequest = ""
       /\ Cardinality(EntriesOf("Human Review")) = 2
       /\ Cardinality(EntriesOf("Regenerate Draft")) = 1
       /\ \E i, j \in EntriesOf("Human Review") :
             /\ i < j
             /\ Log[i].status = "completed"
             /\ \E t \in EditTexts : Log[i].details = EditLogDetails(t)
             /\ Log[j].status = "human_input"

\* C4: once a non-empty draft has been approved the workflow does not sit in
\* status running with no Finalize step in flight.
C4_ApprovalFinalizes ==
    ( /\ OwnRun /\ DraftedOnce /\ approved /\ state.status = "running"
      /\ state.draftSummary # "" )
    => FreshStep("Step4")

----------------------------------------------------------------------------
(* The happy path. *)

Resolves == state.patientId # Null /\ state.patientId[1] \in KnownIds

EmptyResult ==
    \/ HasEntry("Synthesize Clinical Notes", "completed")
          /\ state.synthesizedNotes = ""
    \/ HasEntry("Generate Draft Summary", "completed")
          /\ state.draftSummary = ""

\* A run under the hypotheses of the happy path that has started and has
\* not ended.
HappyPending ==
    /\ OwnRun /\ Resolves
    /\ Log # <<>>
    /\ state.status \in {"running", "awaiting_approval"}
    /\ EntriesOf("Regenerate Draft") = {}
    /\ ~EmptyResult
    /\ approved \/ ops < budget       \* approve() is still explored

HappyDone ==
    /\ state.status = "finished"
    /\ state.finalSummary = state.draftSummary
    /\ state.finalSummary # ""
    /\ Len(Log) > 0
    /\ Log[Len(Log)].step = "Workflow Complete"
    /\ Log[Len(Log)].status = "completed"

\* Steps outside the hypotheses: the run is discarded, edits are requested,
\* a collaborator fails or returns empty text, or a discarded run interferes.
Deviation ==
    \/ handleReset
    \/ handleGenerate
    \/ \E id \in PatientIds : handlePatientSelect(id)
    \/ \E t \in EditTexts : handleRequestEdits(t)
    \/ \E i \in 1..Len(tasks), m \in Messages : StepFail(i, m)
    \/ \E i \in 1..Len(tasks) : Step2Ok(i, "") \/ Step3Ok(i, "")
    \/ tainted'

\* C5: a run for a patient that resolves, with non-empty synthesis and draft
\* results and approve() on the first draft, does not stay unfinished unless
\* it is restarted again and again, and it ends with status finished,
\* finalSummary = draftSummary and "Workflow Complete" (completed) as the
\* last audit entry.
C5_HappyPath ==
    /\ [][HappyPending /\ ~HappyPending' => HappyDone' \/ Deviation]_vars
    /\ ([]<>(~HappyPending) \/ []<><<handleGenerate>>_vars)

C5_Witness ==
    /\ HappyDone /\ OwnRun /\ Resolves /\ approved /\ reviews = 1
    /\ EntriesOf("Regenerate Draft") = {}
    /\ Len(Log) = 7

----------------------------------------------------------------------------
\* C6: when the workflow is finished the step names of the audit log are
\* Start Workflow, Retrieve Patient Data, Synthesize Clinical Notes,
\* Generate Draft Summary, Human Review, then one (Regenerate Draft,
\* Human Review) pair per edit cycle, then Finalize Summary, Workflow Complete.
IsCompleteLog(names) ==
    LET n == Len(names)
    IN /\ n >= 7
       /\ (n - 7) % 2 = 0
       /\ SubSeq(names, 1, 5) = SubSeq(ALL_WORKFLOW_STEPS, 1, 5)
       /\ SubSeq(names, n - 1, n) = SubSeq(ALL_WORKFLOW_STEPS, 6, 7)
       /\ \A k \in 1..((n - 7) \div 2) :
             /\ names[4 + 2 * k] = "Regenerate Draft"
             /\ names[5 + 2 * k] = "Human Review"

C6_LogOfCompletedRun ==
    OwnRun /\ state.status = "finished"
    => IsCompleteLog([i \in 1..Len(Log) |-> Log[i].step])

\* C7: at most one audit entry has status in_progress.
C7_OneInProgress ==
    Cardinality(InProgress) <= 1

\* C8: from status error, every step other than reset(), selectPatient(id)
\* and generate() keeps status error, keeps synthesizedNotes, draftSummary
\* and finalSummary, and begins no workflow step.
DiscardStep ==
    \/ handleReset
    \/ handleGenerate
    \/ \E id \in PatientIds : handlePatientSelect(id)

C8_ErrorIsTerminal ==
    [][ (state.status = "error" /\ OwnRun /\ OwnRun' /\ DraftedOnce
            /\ ~DiscardStep)
        => /\ state'.status = "error"
           /\ state'.synthesizedNotes = state.synthesizedNotes
           /\ state'.draftSummary = state.draftSummary
           /\ state'.finalSummary = state.finalSummary
           /\ \A j \in 1..Len(tasks') : \E i \in 1..Len(tasks) :
                 tasks'[j] = tasks[i] ]_vars

\* C9: in a run whose selected id does not resolve, patientData stays unset,
\* no Synthesize, Draft or Finalize step begins, and once the retrieval has
\* settled status = error, error = "Patient ID <id> not found." and the
\* "Retrieve Patient Data" entry has status error.
NotFoundRun ==
    /\ OwnRun
    /\ state.patientId # Null /\ state.patientId[1] \notin KnownIds
    /\ state.status # "idle"

C9_DataNotFound ==
    NotFoundRun =>
       /\ state.patientData = Null
       /\ \A i \in Fresh : tasks[i].step = "Step1"
       /\ \A i \in 1..Len(Log) :
             Log[i].step \in {"Start Workflow", "Retrieve Patient Data"}
       /\ state.status \in {"running", "error"}
       /\ (Fresh = {} /\ Log # <<>>) =>
             /\ state.status = "error"
             /\ state.error = Some("Patient ID " \o state.patientId[1]
                                     \o " not found.")
             /\ EntriesOf("Retrieve Patient Data") # {}
             /\ \A i \in EntriesOf("Retrieve Patient Data") :
                   Log[i].status = "error"

C9_Witness ==
    /\ NotFoundRun /\ tasks = <<>>
    /\ state.status = "error"
    /\ state.error = Some("Patient ID X not found.")
    /\ HasEntry("Retrieve Patient Data", "error")

\* C10: when a synthesis or draft call fails with message m, status becomes
\* error, error = m, the entry of the active step (the latest one of that
\* name) is marked error with details m, and synthesizedNotes, draftSummary,
\* finalSummary and the status of every other entry are unchanged.
LastEntryOf(step) ==
    CHOOSE i \in EntriesOf(step) : \A j \in EntriesOf(step) : j <= i

C10_FailureFrame ==
    [][ \A i \in 1..Len(tasks), m \in Messages :
          ( /\ StepFail(i, m) /\ OwnRun' /\ DraftedOnce
            /\ EntriesOf(tasks[i].stepName) # {} )
          => /\ state'.status = "error"
             /\ state'.error = Some(m)
             /\ state'.synthesizedNotes = state.synthesizedNotes
             /\ state'.draftSummary = state.draftSummary
             /\ state'.finalSummary = state.finalSummary
             /\ Len(state'.auditLog) = Len(Log)
             /\ LET a == LastEntryOf(tasks[i].stepName)
                IN /\ state'.auditLog[a].status = "error"
                   /\ state'.auditLog[a].details = m
                   /\ \A k \in 1..Len(Log) :
                         k # a => state'.auditLog[k].status = Log[k].status
      ]_vars

----------------------------------------------------------------------------
(* Discarding a run. *)

\* The state reset() and selectPatient(id) leave: INITIAL_STATE up to patientId.
IsFresh(s) == [s EXCEPT !.patientId = Null] = INITIAL_STATE

StepNames(s) == [i \in 1..Len(s.auditLog) |-> s.auditLog[i].step]
IsPrefix(a, b) == Len(a) <= Len(b) /\ SubSeq(b, 1, Len(a)) = a

\* The entries a step adds to the log (all of them when the log is replaced).
Appended ==
    LET n == IF IsPrefix(StepNames(state), StepNames(state'))
             THEN Len(state.auditLog) ELSE 0
    IN {state'.auditLog[k] : k \in (n + 1)..Len(state'.auditLog)}

\* The entry each branch of runWorkflow appends when it begins its step.
BeginNames ==
    {"Start Workflow", "Synthesize Clinical Notes", "Generate Draft Summary",
     "Regenerate Draft", "Finalize Summary"}

\* No step begins: no branch of runWorkflow is taken.
NoStepBegins ==
    /\ Len(tasks') <= Len(tasks)
    /\ \A e \in Appended : e.step \notin BeginNames

\* C11: after reset() or selectPatient(id) the state stays fresh (idle, empty
\* log, notes, draft and final summary, no error, no patientData) and no step
\* begins until generate() is called, also when a step of the discarded run
\* was still awaiting and settles afterwards.
C11_DiscardIsWholesale ==
    [][ (IsFresh(state) /\ ~handleGenerate)
        => (IsFresh(state') /\ NoStepBegins) ]_vars

\* C12: the state immediately after reset() is the initial empty state,
\* whatever state reset() was called in.
C12_ResetRestoresInitial ==
    [][ handleReset =>
          state' = [ patientId        |-> Null,
                     patientData      |-> Null,
                     synthesizedNotes |-> "",
                     draftSummary     |-> "",
                     finalSummary     |-> "",
                     auditLog         |-> <<>>,
                     status           |-> "idle",
                     error            |-> Null,
                     editRequest      |-> "" ] ]_vars

\* reset() was called while a step of the run was still awaiting.
C12_Witness ==
    /\ state = INITIAL_STATE
    /\ tasks # <<>>
    /\ \A i \in 1..Len(tasks) : tasks[i].stale

\* C13: within a run finalSummary is written at most once (once non-empty it
\* does not change) and the Finalize step runs at most once: the log never
\* holds a second "Finalize Summary" or "Workflow Complete" entry.
C13_FinalizeOnce ==
    [][ (OwnRun /\ OwnRun' /\ DraftedOnce /\ ~DiscardStep)
        => /\ state.finalSummary # ""
                 => state'.finalSummary = state.finalSummary
           /\ \A step \in {"Finalize Summary", "Workflow Complete"} :
                 Cardinality({i \in 1..Len(state'.auditLog) :
                                 state'.auditLog[i].step = step}) <= 1 ]_vars

----------------------------------------------------------------------------
(* Audit log. *)

\* C14: within a run the audit log is append-only: every step other than
\* reset(), selectPatient(id) and generate() leaves the sequence of step names
\* unchanged or extends it at the end.
C14_LogAppendOnly ==
    [][ ~DiscardStep => IsPrefix(StepNames(state), StepNames(state')) ]_vars

\* Entries were appended and earlier ones rewritten in place.
C14_Witness ==
    /\ Len(Log) >= 6
    /\ HasEntry("Human Review", "completed")
    /\ HasEntry("Regenerate Draft", "in_progress")

----------------------------------------------------------------------------
(* Re-evaluation. *)

C16_GenerateFrame ==
    [][ handleGenerate =>
          IF state.patientId = Null
          THEN state' = state /\ tasks' = tasks
          ELSE LET s1 == [ patientId        |-> state.patientId,
                           patientData      |-> Null,
                           synthesizedNotes |-> "",
                           draftSummary     |-> "",
                           finalSummary     |-> "",
                           auditLog         |-> <<>>,
                           status           |-> "running",
                           error            |-> Null,
                           editRequest      |-> "" ]
               IN /\ [state' EXCEPT !.auditLog = <<>>] = s1
                  /\ Step1Pre(s1)
                  /\ ~Step2Pre(s1) /\ ~Step3Pre(s1) /\ ~Step4Pre(s1)
                  /\ \A k \in 1..Len(state'.auditLog) :
                        /\ k = 1
                        /\ state'.auditLog[k].step = "Start Workflow"
                  /\ \A j \in 1..Len(tasks') :
                        ~tasks'[j].stale => tasks'[j].step = "Step1" ]_vars

\* generate() was called on an approved run whose Finalize step was still
\* pending: the new state holds nothing of that run and step 1 has begun.
C16_Witness ==
    /\ state.status = "running" /\ state.patientId # Null
    /\ state.patientData = Null /\ state.draftSummary = ""
    /\ Len(Log) = 1 /\ HasEntry("Start Workflow", "in_progress")
    /\ FreshStep("Step1")
    /\ \E i \in 1..Len(tasks) : tasks[i].stale /\ tasks[i].step = "Step4"

----------------------------------------------------------------------------
(* Status updates. *)

FirstEntryOf(step) ==
    CHOOSE i \in EntriesOf(step) : \A j \in EntriesOf(step) : i <= j

\* C17: a status update rewrites only the first entry with the given step
\* name: when approve() or requestEdits() finds several "Human Review"
\* entries, every one but the first is left unchanged.
C17_FirstMatchOnly ==
    [][ ( /\ handleApprove \/ \E t \in EditTexts : handleRequestEdits(t)
          /\ OwnRun /\ DraftedOnce /\ state.draftSummary # "" )
        => \A k \in EntriesOf("Human Review") :
              k # FirstEntryOf("Human Review")
                 => state'.auditLog[k] = Log[k] ]_vars

\* C18: within a run an audit entry that has reached completed or error keeps
\* its status and details: no step other than reset(), selectPatient(id) and
\* generate() changes it.
C18_SettledEntryIsFinal ==
    [][ (OwnRun /\ OwnRun' /\ DraftedOnce /\ state.draftSummary # ""
            /\ ~DiscardStep)
        => \A k \in 1..Len(Log) :
              Log[k].status \in {"completed", "error"}
                 => state'.auditLog[k] = Log[k] ]_vars

----------------------------------------------------------------------------
(* Waiting for the clinician. *)

HumanInput == {i \in 1..Len(Log) : Log[i].status = "human_input"}

\* C19: in every reachable state with status awaiting_approval, draftSummary
\* is non-empty, editRequest is empty, and exactly one audit entry has status
\* human_input, namely the last "Human Review" entry of the log.
C19_AwaitingApproval ==
    state.status = "awaiting_approval"
    => /\ state.draftSummary # ""
       /\ state.editRequest = ""
       /\ EntriesOf("Human Review") # {}
       /\ HumanInput = {LastEntryOf("Human Review")}

\* Every step name the code passes to updateAuditLogStatus.
UpdatedNames ==
    {"Start Workflow", "Retrieve Patient Data", "Synthesize Clinical Notes",
     "Generate Draft Summary", "Regenerate Draft", "Human Review",
     "Finalize Summary"}

\* C20: a status update for a step name that has no entry in the audit log
\* changes nothing: the log and every other field of the state stay as they
\* are and no error is recorded.
C20_MissIsNoOp ==
    \A step \in UpdatedNames :
       EntriesOf(step) = {}
       => \A status \in {"completed", "error"},
             details \in {""} \cup Messages :
             updateAuditLogStatus(state, step, status, details) = state

\* A call of the discarded run failed after reset() or selectPatient(id) had
\* emptied the log: its status update found no entry and the log is still
\* empty.
C20_Witness ==
    /\ tainted /\ Log = <<>>
    /\ state.status = "error" /\ state.error = Some("m1")

====
